---- MODULE Spec2Model ----
(***************************************************************************)
(* Model of the derived-attribute engine of dashboard.py: the ordered      *)
(* FORMULAS registry, roundup, and compute_derived with locked keys and    *)
(* its catch-all error handler, driven the way main() drives it (load a    *)
(* row, override fields, evaluate).                                        *)
(*                                                                         *)
(* Numbers.  Python floats are modelled as exact rationals (sign,          *)
(* numerator, denominator); every decimal literal of the source is the     *)
(* rational it denotes (20.16 = 2016/100, 10.02222222 = 1002222222/10^8).  *)
(* Numerators and denominators outgrow TLC's 32-bit integers, so they are  *)
(* little-endian sequences of base-10000 limbs.  Binary rounding error of  *)
(* IEEE doubles is not modelled.                                           *)
(***************************************************************************)
EXTENDS Integers, Sequences, FiniteSets, TLC

(***************************************************************************)
(* Natural numbers of arbitrary size: <<>> is 0, no leading zero limb.     *)
(***************************************************************************)
LimbBase == 100 * 100

Limb(a, i) == IF i <= Len(a) THEN a[i] ELSE 0

RECURSIVE NatTrim(_)
NatTrim(a) ==
  IF a = <<>> THEN a
  ELSE IF a[Len(a)] = 0 THEN NatTrim(SubSeq(a, 1, Len(a) - 1)) ELSE a

RECURSIVE NatOfInt(_)
NatOfInt(k) ==
  IF k = 0 THEN <<>> ELSE <<k % LimbBase>> \o NatOfInt(k \div LimbBase)

RECURSIVE NatAddC(_, _, _, _)
NatAddC(a, b, i, c) ==
  IF i > Len(a) /\ i > Len(b)
  THEN (IF c = 0 THEN <<>> ELSE <<c>>)
  ELSE LET s == Limb(a, i) + Limb(b, i) + c
       IN  <<s % LimbBase>> \o NatAddC(a, b, i + 1, s \div LimbBase)

NatAdd(a, b) == NatAddC(a, b, 1, 0)

\* a - b for a >= b
RECURSIVE NatSubC(_, _, _, _)
NatSubC(a, b, i, c) ==
  IF i > Len(a) THEN <<>>
  ELSE LET s == a[i] - Limb(b, i) - c
       IN  IF s < 0 THEN <<s + LimbBase>> \o NatSubC(a, b, i + 1, 1)
                    ELSE <<s>> \o NatSubC(a, b, i + 1, 0)

NatSub(a, b) == NatTrim(NatSubC(a, b, 1, 0))

\* -1, 0, 1 as a < b, a = b, a > b
RECURSIVE NatCmpAt(_, _, _)
NatCmpAt(a, b, i) ==
  IF i = 0 THEN 0
  ELSE IF a[i] < b[i] THEN -1
  ELSE IF a[i] > b[i] THEN 1
  ELSE NatCmpAt(a, b, i - 1)

NatCmp(a, b) ==
  IF Len(a) < Len(b) THEN -1
  ELSE IF Len(a) > Len(b) THEN 1
  ELSE NatCmpAt(a, b, Len(a))

\* a * m for one limb m
RECURSIVE NatMulLimbC(_, _, _, _)
NatMulLimbC(a, m, i, c) ==
  IF i > Len(a) THEN (IF c = 0 THEN <<>> ELSE <<c>>)
  ELSE LET s == a[i] * m + c
       IN  <<s % LimbBase>> \o NatMulLimbC(a, m, i + 1, s \div LimbBase)

NatMulLimb(a, m) == IF m = 0 \/ a = <<>> THEN <<>> ELSE NatMulLimbC(a, m, 1, 0)

NatShift(a, k) == IF a = <<>> THEN a ELSE [j \in 1..k |-> 0] \o a

RECURSIVE NatMulFrom(_, _, _)
NatMulFrom(a, b, i) ==
  IF i > Len(b) THEN <<>>
  ELSE NatAdd(NatShift(NatMulLimb(a, b[i]), i - 1), NatMulFrom(a, b, i + 1))

NatMul(a, b) ==
  IF a = <<1>> THEN b
  ELSE IF b = <<1>> THEN a
  ELSE IF Len(b) <= Len(a) THEN NatMulFrom(a, b, 1) ELSE NatMulFrom(b, a, 1)

\* a mod p and a div p for a small p (p < LimbBase)
RECURSIVE NatModSmallAt(_, _, _, _)
NatModSmallAt(a, p, i, r) ==
  IF i = 0 THEN r ELSE NatModSmallAt(a, p, i - 1, (r * LimbBase + a[i]) % p)

NatModSmall(a, p) ==
  IF a = <<>> THEN 0
  ELSE IF LimbBase % p = 0 THEN a[1] % p
  ELSE NatModSmallAt(a, p, Len(a), 0)

RECURSIVE NatDivSmallAt(_, _, _, _)
NatDivSmallAt(a, p, i, r) ==
  IF i = 0 THEN <<>>
  ELSE LET cur == r * LimbBase + a[i]
       IN  NatDivSmallAt(a, p, i - 1, cur % p) \o <<cur \div p>>

NatDivSmall(a, p) == NatTrim(NatDivSmallAt(a, p, Len(a), 0))

\* the largest q in lo..hi with q * b <= r (lo satisfies it)
RECURSIVE NatDigit(_, _, _, _)
NatDigit(r, b, lo, hi) ==
  IF lo = hi THEN lo
  ELSE LET mid == (lo + hi + 1) \div 2
       IN  IF NatCmp(NatMulLimb(b, mid), r) <= 0
           THEN NatDigit(r, b, mid, hi)
           ELSE NatDigit(r, b, lo, mid - 1)

\* the leading limbs of r taken as one integer, down to the leading limb of b
NatLead(r, b) ==
  IF Len(r) > Len(b) THEN r[Len(r)] * LimbBase + r[Len(r) - 1] ELSE r[Len(r)]

\* r div b for r < LimbBase * b: the quotient lies between the two estimates
\* that the leading limbs give
NatQuot(r, b) ==
  IF NatCmp(r, b) < 0 THEN 0
  ELSE LET top == NatLead(r, b)
           hi  == top \div b[Len(b)]
       IN  NatDigit(r, b, top \div (b[Len(b)] + 1),
                    IF hi < LimbBase THEN hi ELSE LimbBase - 1)

\* long division, most significant limb first: [q, r] with a = q * b + r, r < b
RECURSIVE NatDivModAt(_, _, _, _, _)
NatDivModAt(a, b, i, r, q) ==
  IF i = 0 THEN [q |-> NatTrim(q), r |-> r]
  ELSE LET Take(cur, dig) ==
             NatDivModAt(a, b, i - 1, NatSub(cur, NatMulLimb(b, dig)), <<dig>> \o q)
           Digit(cur) == Take(cur, NatQuot(cur, b))
       IN  Digit(NatTrim(<<a[i]>> \o r))

NatDivMod(a, b) ==
  IF b = <<1>> THEN [q |-> a, r |-> <<>>] ELSE NatDivModAt(a, b, Len(a), <<>>, <<>>)

(***************************************************************************)
(* Values a record field can hold: a number (Python int or float), the     *)
(* float NaN, or a non-numeric object (a str).  A record (a dict) is a      *)
(* function on all field names, Absent marking the keys the dict does not  *)
(* hold.  The outcome of evaluating an expression is a value or a raised   *)
(* exception.                                                              *)
(***************************************************************************)
Num(neg, n, d) == [t |-> "num", neg |-> neg, n |-> n, d |-> d]

NaN == [t |-> "nan", neg |-> FALSE, n |-> <<>>, d |-> <<1>>]

Str == [t |-> "str", neg |-> FALSE, n |-> <<>>, d |-> <<1>>]

Absent == [t |-> "absent", neg |-> FALSE, n |-> <<>>, d |-> <<1>>]

Raise(e) == [t |-> "raise", exc |-> e]

IsNum(v) == v.t = "num"

IsNaN(v) == v.t = "nan"

IsRaise(v) == v.t = "raise"

SmallFactors == <<100, 10, 2, 5, 3, 7, 11, 13>>

\* cancel the common powers of the small factors (keeps the limbs few; equality
\* of numbers is NumEq, which does not need a normal form)
RECURSIVE CancelFactors(_, _, _)
CancelFactors(n, d, i) ==
  IF i > Len(SmallFactors) \/ d = <<1>> THEN <<n, d>>
  ELSE IF NatModSmall(d, SmallFactors[i]) = 0 /\ NatModSmall(n, SmallFactors[i]) = 0
  THEN CancelFactors(NatDivSmall(n, SmallFactors[i]), NatDivSmall(d, SmallFactors[i]), i)
  ELSE CancelFactors(n, d, i + 1)

\* first the common zero limbs, then the small factors; n and d are not 0
RECURSIVE Cancel(_, _)
Cancel(n, d) ==
  IF n[1] = 0 /\ d[1] = 0 THEN Cancel(Tail(n), Tail(d)) ELSE CancelFactors(n, d, 1)

RECURSIVE Gcd(_, _)
Gcd(a, b) == IF b = 0 THEN a ELSE Gcd(b, a % b)

NatToInt(a) == Limb(a, 1) + LimbBase * Limb(a, 2)

\* lowest terms when both parts are below LimbBase^2, else Cancel
Lowest(n, d) ==
  IF d = <<1>> THEN <<n, d>>
  ELSE IF Len(n) <= 2 /\ Len(d) <= 2
  THEN LET Over(a, b, g) == <<NatOfInt(a \div g), NatOfInt(b \div g)>>
           Of(a, b) == Over(a, b, Gcd(a, b))
       IN  Of(NatToInt(n), NatToInt(d))
  ELSE Cancel(n, d)

MkNum(neg, n, d) ==
  IF n = <<>> THEN Num(FALSE, <<>>, <<1>>)
  ELSE LET Of(c) == Num(neg, c[1], c[2]) IN Of(Lowest(n, d))

\* the number k / m for integers k and m > 0
Rat(k, m) ==
  MkNum(k < 0, NatOfInt(IF k < 0 THEN -k ELSE k), NatOfInt(m))

IntNum(k) == Rat(k, 1)

NumIsZero(x) == x.n = <<>>

NumNeg(x) == IF NumIsZero(x) THEN x ELSE [x EXCEPT !.neg = ~x.neg]

\* x + y on magnitudes xn, yn over the common denominator d
NumAddSame(xneg, xn, yneg, yn, d) ==
  MkNum(IF xneg = yneg \/ NatCmp(xn, yn) >= 0 THEN xneg ELSE yneg,
        IF xneg = yneg THEN NatAdd(xn, yn)
        ELSE IF NatCmp(xn, yn) >= 0 THEN NatSub(xn, yn) ELSE NatSub(yn, xn),
        d)

NumAdd(x, y) ==
  IF NumIsZero(x) THEN y
  ELSE IF NumIsZero(y) THEN x
  ELSE NumAddSame(x.neg, IF x.d = y.d THEN x.n ELSE NatMul(x.n, y.d),
                  y.neg, IF x.d = y.d THEN y.n ELSE NatMul(y.n, x.d),
                  IF x.d = y.d THEN x.d ELSE NatMul(x.d, y.d))

NumSub(x, y) == NumAdd(x, NumNeg(y))

NumMul(x, y) == MkNum(x.neg # y.neg, NatMul(x.n, y.n), NatMul(x.d, y.d))

\* x / y for y # 0
NumDiv(x, y) == MkNum(x.neg # y.neg, NatMul(x.n, y.d), NatMul(x.d, y.n))

\* x < y
NumLess(x, y) ==
  IF x.neg # y.neg THEN x.neg
  ELSE NatCmp(NatMul(x.n, y.d), NatMul(y.n, x.d)) = (IF x.neg THEN 1 ELSE -1)

NumEq(x, y) ==
  /\ x.neg = y.neg
  /\ NatMul(x.n, y.d) = NatMul(y.n, x.d)

NumIsInt(x) == NatDivMod(x.n, x.d).r = <<>>

\* the integer of magnitude q
NumWhole(neg, q) == IF q = <<>> THEN Num(FALSE, <<>>, <<1>>) ELSE Num(neg, q, <<1>>)

\* rounding toward minus infinity
NumFloor(x) ==
  LET Of(dm) == IF dm.r = <<>> \/ ~x.neg THEN NumWhole(x.neg, dm.q)
                ELSE NumWhole(TRUE, NatAdd(dm.q, <<1>>))
  IN  Of(NatDivMod(x.n, x.d))

\* math.ceil on a finite number
NumCeil(x) ==
  LET Of(dm) == IF dm.r = <<>> \/ x.neg THEN NumWhole(x.neg, dm.q)
                ELSE NumWhole(FALSE, NatAdd(dm.q, <<1>>))
  IN  Of(NatDivMod(x.n, x.d))

(***************************************************************************)
(* Expressions.  The registry's formula strings are given as their syntax  *)
(* trees: a read row['k'], an int or float literal (k / m), a literal for   *)
(* a given value, a binary operator, or a call of one of the three names   *)
(* of safe_globals.                                                        *)
(***************************************************************************)
Fld(k) == [op |-> "row", key |-> k]

LitI(k) == [op |-> "lit", k |-> k, m |-> 1, int |-> TRUE]

LitF(k, m) == [op |-> "lit", k |-> k, m |-> m, int |-> FALSE]

\* a literal that denotes the value v (not written as an int)
Const(v) == [op |-> "const", v |-> v]

Bin(o, a, b) == [op |-> o, a |-> a, b |-> b]

Max(a, b) == [op |-> "max", a |-> a, b |-> b]

Sum(args) == [op |-> "sum", args |-> args]

Roundup(a, digits) == [op |-> "roundup", a |-> a, digits |-> digits]

\* key in row
Has(row, key) == row[key].t # "absent"

IsIntLit(e) == e.op = "lit" /\ e.int

\* x + y
PyAdd(x, y) ==
  IF x.t = "str" /\ y.t = "str" THEN Str
  ELSE IF x.t = "str" \/ y.t = "str" THEN Raise("TypeError")
  ELSE IF IsNaN(x) \/ IsNaN(y) THEN NaN
  ELSE NumAdd(x, y)

\* x - y
PySub(x, y) ==
  IF x.t = "str" \/ y.t = "str" THEN Raise("TypeError")
  ELSE IF IsNaN(x) \/ IsNaN(y) THEN NaN
  ELSE NumSub(x, y)

\* x * y; a str times an int is a (repeated) str
PyMul(x, y, xint, yint) ==
  IF x.t = "str" THEN (IF yint THEN Str ELSE Raise("TypeError"))
  ELSE IF y.t = "str" THEN (IF xint THEN Str ELSE Raise("TypeError"))
  ELSE IF IsNaN(x) \/ IsNaN(y) THEN NaN
  ELSE NumMul(x, y)

\* x / y: the divisor is tested for zero before anything is computed
PyDiv(x, y) ==
  IF x.t = "str" \/ y.t = "str" THEN Raise("TypeError")
  ELSE IF IsNum(y) /\ NumIsZero(y) THEN Raise("ZeroDivisionError")
  ELSE IF IsNaN(x) \/ IsNaN(y) THEN NaN
  ELSE NumDiv(x, y)

\* whether y > x is defined: a str is ordered with a str only
PyComparable(y, x) == (x.t = "str") = (y.t = "str")

\* y > x where defined, as the builtin max asks it: FALSE with a NaN on a side
PyGreater(y, x) ==
  IF x.t = "str" \/ IsNaN(x) \/ IsNaN(y) THEN FALSE ELSE NumLess(x, y)

\* the builtin max(x, y): x unless y > x
PyMax(x, y) ==
  IF ~PyComparable(y, x) THEN Raise("TypeError")
  ELSE IF PyGreater(y, x) THEN y ELSE x

\* the builtin sum(xs): 0 + xs[1] + xs[2] + ...
RECURSIVE PySumFrom(_, _, _)
PySumFrom(acc, xs, i) ==
  IF i > Len(xs) \/ IsRaise(acc) THEN acc
  ELSE PySumFrom(PyAdd(acc, xs[i]), xs, i + 1)

PySum(xs) == PySumFrom(Num(FALSE, <<>>, <<1>>), xs, 1)

RECURSIVE Pow10(_)
Pow10(k) == IF k = 0 THEN 1 ELSE 10 * Pow10(k - 1)

\* math.ceil(x)
PyCeil(x) ==
  IF x.t = "str" THEN Raise("TypeError")
  ELSE IF IsNaN(x) THEN Raise("ValueError")
  ELSE NumCeil(x)

\* factor = 10 ** digits; math.ceil(x * factor) / factor
roundup(x, digits) ==
  LET Back(up, factor) == IF IsRaise(up) THEN up ELSE PyDiv(up, factor)
      Up(scaled, factor) ==
        Back(IF IsRaise(scaled) THEN scaled ELSE PyCeil(scaled), factor)
      Scale(factor) == Up(PyMul(x, factor, FALSE, TRUE), factor)
  IN  Scale(IntNum(Pow10(digits)))

\* eval(expr, safe_globals, {'row': row}): operands left to right, the first
\* exception raised ends the evaluation
RECURSIVE Eval(_, _)
RECURSIVE EvalList(_, _, _)
EvalList(es, row, i) ==
  IF i > Len(es) THEN [raised |-> FALSE, vals |-> <<>>]
  ELSE LET v == Eval(es[i], row)
       IN  IF IsRaise(v) THEN [raised |-> TRUE, exc |-> v]
           ELSE LET rest == EvalList(es, row, i + 1)
                IN  IF rest.raised THEN rest
                    ELSE [raised |-> FALSE, vals |-> <<v>> \o rest.vals]

Eval(e, row) ==
  IF e.op = "row" THEN (IF Has(row, e.key) THEN row[e.key] ELSE Raise("KeyError"))
  ELSE IF e.op = "lit" THEN Rat(e.k, e.m)
  ELSE IF e.op = "const" THEN e.v
  ELSE IF e.op = "sum" THEN
    LET xs == EvalList(e.args, row, 1)
    IN  IF xs.raised THEN xs.exc ELSE PySum(xs.vals)
  ELSE
    LET x == Eval(e.a, row)
    IN  IF IsRaise(x) THEN x
        ELSE IF e.op = "roundup" THEN roundup(x, e.digits)
        ELSE LET y == Eval(e.b, row)
             IN  IF IsRaise(y) THEN y
                 ELSE IF e.op = "add" THEN PyAdd(x, y)
                 ELSE IF e.op = "sub" THEN PySub(x, y)
                 ELSE IF e.op = "mul" THEN PyMul(x, y, IsIntLit(e.a), IsIntLit(e.b))
                 ELSE IF e.op = "div" THEN PyDiv(x, y)
                 ELSE PyMax(x, y)

(***************************************************************************)
(* The registry, in declared order.                                        *)
(***************************************************************************)
DeclaredFormulas ==
  << [key |-> "in_avg_wt_cn",
      expr |-> Bin("div", Fld("in_ndx_vol_wt"), Fld("in_ndx_out_vol"))],
     [key |-> "out_avg_wt_cn",
      expr |-> Bin("div", Fld("out_ndx_vol_wt"), Fld("out_ndx_out_vol"))],
     [key |-> "packet",
      expr |-> Bin("div", Max(Fld("in_docs"), Fld("out_docs")), LitI(15))],
     [key |-> "bag_doc",
      expr |-> Bin("div", Bin("div", Max(Fld("in_docs"), Fld("out_docs")), LitI(15)), LitI(15))],
     [key |-> "vol_bag_non_doc",
      expr |-> Bin("div", Max(Fld("in_ndx_out_vol"), Fld("out_ndx_out_vol")), LitI(13))],
     [key |-> "wt_bag_non_doc",
      expr |-> Bin("div", Max(Fld("in_ndx_vol_wt"), Fld("out_ndx_vol_wt")), LitI(25))],
     [key |-> "out_per_day_docs",
      expr |-> Roundup(Bin("div", Fld("out_docs"), LitI(25)), 0)],
     [key |-> "out_per_day_non_docs",
      expr |-> Roundup(Bin("div", Fld("out_non_docs"), LitI(25)), 0)],
     [key |-> "out_per_day_air",
      expr |-> Roundup(Bin("div", Fld("out_air"), LitI(25)), 0)],
     [key |-> "out_per_day_surface",
      expr |-> Roundup(Bin("div", Fld("out_surface"), LitI(25)), 0)],
     [key |-> "out_per_day_ndx_out_vol",
      expr |-> Roundup(Bin("div", Fld("out_ndx_out_vol"), LitI(25)), 0)],
     [key |-> "out_per_day_ndx_vol_wt",
      expr |-> Roundup(Bin("div", Fld("out_ndx_vol_wt"), LitI(25)), 0)],
     [key |-> "in_per_day_docs",
      expr |-> Roundup(Bin("div", Fld("in_docs"), LitI(25)), 0)],
     [key |-> "in_per_day_non_docs",
      expr |-> Roundup(Bin("div", Fld("in_non_docs"), LitI(25)), 0)],
     [key |-> "in_per_day_air",
      expr |-> Roundup(Bin("div", Fld("in_air"), LitI(25)), 0)],
     [key |-> "in_per_day_surface",
      expr |-> Roundup(Bin("div", Fld("in_surface"), LitI(25)), 0)],
     [key |-> "in_per_day_ndx_out_vol",
      expr |-> Roundup(Bin("div", Fld("in_ndx_out_vol"), LitI(25)), 0)],
     [key |-> "in_per_day_ndx_vol_wt",
      expr |-> Roundup(Bin("div", Fld("in_ndx_vol_wt"), LitI(25)), 0)],
     [key |-> "per_day_ndx",
      expr |-> Max(Fld("out_per_day_non_docs"), Fld("in_per_day_non_docs"))],
     [key |-> "per_day_dox",
      expr |-> Max(Fld("out_per_day_docs"), Fld("in_per_day_docs"))],
     [key |-> "per_day_packet",
      expr |-> Bin("div", Fld("packet"), LitI(25))],
     [key |-> "per_day_bag_doc",
      expr |-> Bin("div", Fld("bag_doc"), LitI(25))],
     [key |-> "per_day_bag_non_doc",
      expr |-> Bin("div", Max(Fld("vol_bag_non_doc"), Fld("wt_bag_non_doc")), LitI(25))],
     [key |-> "per_day_air",
      expr |-> Bin("div", Fld("out_per_day_air"), LitI(12))],
     [key |-> "cd_unit",
      expr |-> Bin("div", Bin("mul", Bin("add", Fld("per_day_bag_doc"), Fld("per_day_bag_non_doc")), LitI(35)), LitI(3600))],
     [key |-> "with_sorter_sorter_unit",
      expr |-> Bin("div", Bin("mul", Bin("mul", LitF(2016, 100), Fld("per_day_ndx")), LitF(55, 100)), LitI(3600))],
     [key |-> "with_sorter_non_cony",
      expr |-> Bin("div", Bin("mul", Bin("mul", Fld("with_sorter_sorter_unit"), LitF(3, 10)), LitF(15, 10)), LitF(55, 100))],
     [key |-> "manual_sorting_units",
      expr |-> Bin("div", Bin("mul", Fld("per_day_ndx"), LitF(311, 10)), LitI(3600))],
     [key |-> "xray_unit",
      expr |-> Bin("div", Bin("mul", Fld("per_day_air"), LitI(15)), LitI(3600))],
     [key |-> "air_unit",
      expr |-> Bin("div", Bin("mul", Fld("per_day_air"), LitI(38)), LitI(3600))],
     [key |-> "surface_unit",
      expr |-> Bin("div", Bin("mul", Bin("sub", Bin("add", Fld("per_day_bag_doc"), Fld("per_day_bag_non_doc")), Fld("per_day_air")), LitI(38)), LitI(3600))],
     [key |-> "doc_unit",
      expr |-> Bin("div", Bin("mul", Bin("mul", LitF(6, 10), Fld("per_day_dox")), LitF(1002222222, 100000000)), LitI(3600))],
     [key |-> "exception_han_unit",
      expr |-> Bin("div", Bin("mul", Bin("mul", LitF(5, 100), LitI(30)), Fld("per_day_ndx")), LitI(3600))],
     [key |-> "skidder_unit",
      expr |-> Bin("mul", LitF(1, 10), Sum(<<Fld("cd_unit"), Fld("with_sorter_sorter_unit"), Fld("with_sorter_non_cony"), Fld("manual_sorting_units"), Fld("xray_unit"), Fld("air_unit"), Fld("surface_unit"), Fld("doc_unit"), Fld("exception_han_unit")>>))],
     [key |-> "total",
      expr |-> Bin("mul", LitF(12, 10), Bin("sub", Sum(<<Fld("cd_unit"), Fld("with_sorter_sorter_unit"), Fld("with_sorter_non_cony"), Fld("manual_sorting_units"), Fld("skidder_unit"), Fld("xray_unit"), Fld("air_unit"), Fld("surface_unit"), Fld("doc_unit"), Fld("exception_han_unit")>>), Fld("manual_sorting_units")))],
     [key |-> "manpower_in_units_cd_unit",
      expr |-> Roundup(Bin("div", Bin("mul", Fld("cd_unit"), LitF(125, 100)), Fld("at")), 0)],
     [key |-> "manpower_in_units_with_sorter_sorter_unit",
      expr |-> Roundup(Bin("div", Bin("mul", Fld("with_sorter_sorter_unit"), LitF(125, 100)), Fld("at")), 0)],
     [key |-> "manpower_in_units_with_sorter_non_cony",
      expr |-> Roundup(Bin("div", Bin("mul", Fld("with_sorter_non_cony"), LitF(125, 100)), Fld("at")), 0)],
     [key |-> "manpower_in_units_with_no_sorter_manual_sorting_units",
      expr |-> Roundup(Bin("div", Bin("mul", Fld("manual_sorting_units"), LitF(125, 100)), Fld("at")), 0)],
     [key |-> "manpower_in_units_skidder_unit",
      expr |-> Roundup(Bin("div", Bin("mul", Fld("skidder_unit"), LitF(125, 100)), Fld("at")), 0)],
     [key |-> "manpower_in_units_xray_unit",
      expr |-> Roundup(Bin("div", Bin("mul", Fld("xray_unit"), LitF(125, 100)), Fld("at")), 0)],
     [key |-> "manpower_in_units_air_unit",
      expr |-> Roundup(Bin("div", Bin("mul", Fld("air_unit"), LitF(125, 100)), Fld("at")), 0)],
     [key |-> "manpower_in_units_surface_unit",
      expr |-> Roundup(Bin("div", Bin("mul", Fld("surface_unit"), LitF(125, 100)), Fld("at")), 0)],
     [key |-> "manpower_in_units_doc_unit",
      expr |-> Roundup(Bin("div", Bin("mul", Fld("doc_unit"), LitF(125, 100)), Fld("at")), 0)],
     [key |-> "manpower_in_units_exception_han_unit",
      expr |-> Roundup(Bin("div", Bin("mul", Fld("exception_han_unit"), LitF(125, 100)), Fld("at")), 0)],
     [key |-> "manpower_with_sorter",
      expr |-> Bin("sub", Sum(<<Fld("manpower_in_units_cd_unit"), Fld("manpower_in_units_with_sorter_sorter_unit"), Fld("manpower_in_units_with_sorter_non_cony"), Fld("manpower_in_units_with_no_sorter_manual_sorting_units"), Fld("manpower_in_units_skidder_unit"), Fld("manpower_in_units_xray_unit"), Fld("manpower_in_units_air_unit"), Fld("manpower_in_units_surface_unit"), Fld("manpower_in_units_doc_unit"), Fld("manpower_in_units_exception_han_unit")>>), Fld("manpower_in_units_with_no_sorter_manual_sorting_units"))],
     [key |-> "manpower_without_sorter",
      expr |-> Bin("sub", Bin("sub", Sum(<<Fld("manpower_in_units_cd_unit"), Fld("manpower_in_units_with_sorter_sorter_unit"), Fld("manpower_in_units_with_sorter_non_cony"), Fld("manpower_in_units_with_no_sorter_manual_sorting_units"), Fld("manpower_in_units_skidder_unit"), Fld("manpower_in_units_xray_unit"), Fld("manpower_in_units_air_unit"), Fld("manpower_in_units_surface_unit"), Fld("manpower_in_units_doc_unit"), Fld("manpower_in_units_exception_han_unit")>>), Fld("manpower_in_units_with_sorter_sorter_unit")), Fld("manpower_in_units_with_sorter_non_cony"))] >>

\* the registry with the entries at positions i and j exchanged
Exchanged(fs, i, j) ==
  [k \in DOMAIN fs |-> IF k = i THEN fs[j] ELSE IF k = j THEN fs[i] ELSE fs[k]]

\* a registry in which per_day_air is declared before the out_per_day_air it reads
MisorderedFormulas == Exchanged(DeclaredFormulas, 9, 24)

\* a registry whose manpower_with_sorter is scaled by the sorter flag
SorterGatedFormulas ==
  [DeclaredFormulas EXCEPT
     ![46] = [key |-> DeclaredFormulas[46].key,
              expr |-> Bin("mul", Fld("sorter"), DeclaredFormulas[46].expr)]]

FORMULAS == DeclaredFormulas


BASE_INPUT_FIELDS ==
  << "out_docs", "out_non_docs", "out_air", "out_surface", "out_ndx_out_vol",
     "out_ndx_vol_wt", "in_docs", "in_non_docs", "in_air", "in_surface",
     "in_ndx_out_vol", "in_ndx_vol_wt", "sorter", "at" >>

Range(s) == {s[i] : i \in DOMAIN s}

Keys == {FORMULAS[i].key : i \in DOMAIN FORMULAS}

BaseFields == Range(BASE_INPUT_FIELDS)

Fields == BaseFields \cup Keys

\* the field names an expression reads
RECURSIVE Reads(_)
RECURSIVE ReadsList(_, _)
ReadsList(es, i) ==
  IF i > Len(es) THEN {} ELSE Reads(es[i]) \cup ReadsList(es, i + 1)

Reads(e) ==
  IF e.op = "row" THEN {e.key}
  ELSE IF e.op \in {"lit", "const"} THEN {}
  ELSE IF e.op = "sum" THEN ReadsList(e.args, 1)
  ELSE IF e.op = "roundup" THEN Reads(e.a)
  ELSE Reads(e.a) \cup Reads(e.b)

\* the fields read by the formula of each key of the registry fs
ReadsIn(fs) ==
  [k \in Range([i \in DOMAIN fs |-> fs[i].key]) |->
     UNION {Reads(fs[i].expr) : i \in {j \in DOMAIN fs : fs[j].key = k}}]

ReadsOf == ReadsIn(FORMULAS)

\* the fields a set of fields depends on, directly or through registry keys
RECURSIVE Closure(_, _)
Closure(reads, S) ==
  LET Grow(T) == IF T = S THEN S ELSE Closure(reads, T)
  IN  Grow(S \cup UNION {reads[k] : k \in S \cap DOMAIN reads})

\* the fields key k's formula reads directly or transitively
DependsIn(reads) == [k \in DOMAIN reads |-> Closure(reads, reads[k])]

DependsOn == DependsIn(ReadsOf)

(***************************************************************************)
(* compute_derived                                                         *)
(***************************************************************************)
\* row[key] = v
Store(row, key, v) == [row EXCEPT ![key] = v]

\* an except clause that lets everything but a KeyError through
CaughtOnlyKeyError(exc) == exc = "KeyError"

\* an except clause that forgets the KeyError
CaughtNoKeyError(exc) == exc \in {"ZeroDivisionError", "TypeError", "ValueError"}

\* except Exception: every exception an expression can raise derives from it
Caught(exc) == exc \in {"KeyError", "ZeroDivisionError", "TypeError", "ValueError"}

\* a loop body without the test of locked
LoopBodyNoLock(fs, st, locked, i) ==
  LET Keep(r) ==
        IF ~IsRaise(r) THEN [st EXCEPT !.row = Store(st.row, fs[i].key, r)]
        ELSE [st EXCEPT !.row = Store(st.row, fs[i].key, NaN),
                        !.failed = @ \cup {<<fs[i].key, r.exc>>}]
  IN  Keep(Eval(fs[i].expr, st.row))

\* a loop body whose handler is "pass": a failed key is left as it was
LoopBodyPass(fs, st, locked, i) ==
  LET Keep(r) ==
        IF ~IsRaise(r) THEN [st EXCEPT !.row = Store(st.row, fs[i].key, r)]
        ELSE [st EXCEPT !.failed = @ \cup {<<fs[i].key, r.exc>>}]
  IN  IF fs[i].key \in locked THEN st ELSE Keep(Eval(fs[i].expr, st.row))

\* one pass of the loop body, for entry i of the registry fs, on
\* st = [row, raised, failed]: raised is TRUE when an exception leaves the
\* function, the record being as the loop left it; failed notes each key whose
\* formula raised, and what
LoopBody(fs, st, locked, i) ==
  LET Keep(r) ==
        IF ~IsRaise(r) THEN [st EXCEPT !.row = Store(st.row, fs[i].key, r)]
        ELSE IF Caught(r.exc)
        THEN [st EXCEPT !.row = Store(st.row, fs[i].key, NaN),
                        !.failed = @ \cup {<<fs[i].key, r.exc>>}]
        ELSE [st EXCEPT !.raised = TRUE, !.failed = @ \cup {<<fs[i].key, r.exc>>}]
  IN  IF fs[i].key \in locked THEN st ELSE Keep(Eval(fs[i].expr, st.row))

\* the loop over fs.items(), entries lo..hi in declared order (the range is
\* split in halves only to keep the evaluation shallow)
RECURSIVE Loop(_, _, _, _, _)
Loop(fs, st, locked, lo, hi) ==
  IF st.raised \/ lo > hi THEN st
  ELSE IF lo = hi THEN LoopBody(fs, st, locked, lo)
  ELSE Loop(fs, Loop(fs, st, locked, lo, (lo + hi) \div 2), locked,
            (lo + hi) \div 2 + 1, hi)

\* the evaluation of a record against a registry
Evaluate(fs, row, locked) ==
  Loop(fs, [row |-> row, raised |-> FALSE, failed |-> {}], locked, 1, Len(fs))

\* locked = set(locked_keys or []), then the loop over FORMULAS; the record
\* is returned
compute_derived(row, locked_keys) == Evaluate(FORMULAS, row, locked_keys)

(***************************************************************************)
(* The records the Record Source hands over, and what main() drives.       *)
(***************************************************************************)
\* a record holding the base inputs vals (each <<k, m>> for k / m), in the
\* order of BASE_INPUT_FIELDS
BaseRecord(vals) ==
  LET At(p) == Rat(p[1], p[2])
  IN  [f \in Fields |->
         IF f \in BaseFields
         THEN At(vals[CHOOSE i \in DOMAIN BASE_INPUT_FIELDS : BASE_INPUT_FIELDS[i] = f])
         ELSE Absent]

\* Scenario A of the specification
ScenarioA ==
  BaseRecord(<< <<100, 1>>, <<200, 1>>, <<40, 1>>, <<160, 1>>, <<300, 1>>,
                <<900, 1>>, <<50, 1>>, <<150, 1>>, <<20, 1>>, <<130, 1>>,
                <<250, 1>>, <<750, 1>>, <<1, 1>>, <<20, 1>> >>)

\* a hub without sorter: inbound documents dominate, out_non_docs / 25 is
\* 24.01, out_docs / 25 is 25, air outweighs the bags (a negative
\* surface_unit), and at is a fraction
ScenarioPeak ==
  BaseRecord(<< <<625, 1>>, <<2401, 4>>, <<1000, 1>>, <<0, 1>>, <<130, 1>>,
                <<100, 1>>, <<700, 1>>, <<0, 1>>, <<0, 1>>, <<10, 1>>,
                <<7, 1>>, <<3, 1>>, <<0, 1>>, <<1, 4>> >>)

CompleteRecords == {ScenarioA, ScenarioPeak}

\* what a degraded record holds in place of one base input: nothing, NaN (an
\* empty cell), zero, or text
Degraded == {Absent, NaN, Num(FALSE, <<>>, <<1>>), Str}

\* a complete record, or the record with one base input degraded
Variants(rec) == {rec} \cup {Store(rec, b, d) : b \in BaseFields, d \in Degraded}

\* the values an operator types in for an overridden field
OverrideValues == {Num(FALSE, <<12>>, <<1>>), NaN, Str}

\* the two inputs of main(): per_day_ndx and per_day_dox
MainInputs == {<<Num(FALSE, <<12>>, <<1>>), Num(FALSE, <<5>>, <<1>>)>>}

\* locked_keys of main()
MainLocked == {"per_day_ndx", "per_day_dox"}

\* the number of compute_derived calls made on one record
MaxCalls == 3

VARIABLES
  source,   \* the complete record of the hub and shift
  loaded,   \* base_row: the record as the Record Source delivered it
  row,      \* working_row: the record being overridden and evaluated
  before,   \* row as it was when the last compute_derived call began
  history,  \* the locked-key sets of the calls made on row, oldest first
  raised,   \* whether the last call let an exception out
  failed    \* the <<key, exception>> pairs of the formulas that raised in the last call

vars == <<source, loaded, row, before, history, raised, failed>>

\* the registry keys the record holds
PresentKeys(rec) == {k \in DOMAIN rec \ BaseFields : Has(rec, k)}

\* the records on which single overrides of every registry key are explored
SingleOverrideRecords == {ScenarioA, Store(ScenarioA, "at", Absent)}

Init ==
  /\ source \in CompleteRecords
  /\ loaded \in Variants(source)
  /\ row = loaded
  /\ before = loaded
  /\ history = <<>>
  /\ raised = FALSE
  /\ failed = {}

\* working_row[k] = v for one registry key k
Override ==
  /\ history = <<>>
  /\ PresentKeys(row) = {}
  /\ loaded \in SingleOverrideRecords
  /\ \E k \in DOMAIN row \ BaseFields, v \in OverrideValues : row' = Store(row, k, v)
  /\ UNCHANGED <<source, loaded, before, history, raised, failed>>

\* working_row['per_day_ndx'] = float(input_per_day_ndx), and the same for
\* per_day_dox
MainOverride ==
  /\ history = <<>>
  /\ PresentKeys(row) = {}
  /\ \E in \in MainInputs :
       row' = Store(Store(row, "per_day_ndx", in[1]), "per_day_dox", in[2])
  /\ UNCHANGED <<source, loaded, before, history, raised, failed>>

\* the locked-key sets a call is made with: on a fresh working row the keys
\* that were overridden, or none, or main's list; on an evaluated record none
LockChoices ==
  IF history # <<>> THEN {{}}
  ELSE IF PresentKeys(row) # {} THEN {PresentKeys(row)}
  ELSE {{}, MainLocked}

\* row = compute_derived(row, locked_keys)
ComputeDerived(locked_keys) ==
  /\ Len(history) < MaxCalls
  /\ LET Return(res) ==
           /\ row' = res.row
           /\ raised' = res.raised
           /\ failed' = res.failed
     IN  Return(compute_derived(row, locked_keys))
  /\ before' = row
  /\ history' = Append(history, locked_keys)
  /\ UNCHANGED <<source, loaded>>

Next ==
  \/ Override
  \/ MainOverride
  \/ \E L \in LockChoices : ComputeDerived(L)

Spec == Init /\ [][Next]_vars

(***************************************************************************)
(* Properties.                                                             *)
(***************************************************************************)
\* the locked-key set of the last call
locked == history[Len(history)]

\* a call has been made
Called == history # <<>>

\* exactly one call has been made: before is the record handed in, loaded
\* with the overrides
FirstCall == Len(history) = 1

\* the same value: numbers by their value, anything else as it is
ValEq(x, y) == IF IsNum(x) /\ IsNum(y) THEN NumEq(x, y) ELSE x = y

\* two records agree on the fields K
Same(r1, r2, K) == \A k \in K : ValEq(r1[k], r2[k])

\* the registry fs with the formula of every key of L replaced by the literal
\* of the value rec holds for it
Pinned(fs, L, rec) ==
  [i \in DOMAIN fs |->
     IF fs[i].key \in L THEN [key |-> fs[i].key, expr |-> Const(rec[fs[i].key])]
     ELSE fs[i]]

\* C1: a key that is locked and present in the record handed in holds, in the
\* record returned, the value it held before the call, whatever its formula
\* gives.
LockFidelity ==
  Called => \A k \in locked : Has(before, k) => row[k] = before[k]

\* a locked key kept its number although its formula gives another number
LockFidelityWitness ==
  /\ Called
  /\ \E i \in DOMAIN FORMULAS :
       /\ FORMULAS[i].key \in locked
       /\ IsNum(before[FORMULAS[i].key])
       /\ row[FORMULAS[i].key] = before[FORMULAS[i].key]
       /\ LET Differs(r) == IsNum(r) /\ ~NumEq(r, row[FORMULAS[i].key])
          IN  Differs(Eval(FORMULAS[i].expr, row))

\* C2: no call lets an exception out; every key whose formula raised is
\* unlocked and holds NaN; and every unlocked key has been given a value, the
\* keys declared after a failure included.
FailSoft ==
  Called =>
    /\ ~raised
    /\ \A p \in failed : p[1] \notin locked /\ IsNaN(row[p[1]])
    /\ \A k \in Keys \ locked : Has(row, k)

\* the first entry divided by zero, holds NaN, and the entries after it were
\* evaluated to numbers
FailSoftWitness ==
  /\ Called
  /\ <<"in_avg_wt_cn", "ZeroDivisionError">> \in failed
  /\ IsNaN(row["in_avg_wt_cn"])
  /\ IsNum(row["total"])
  /\ IsNum(row["manpower_without_sorter"])

\* C3: after the unlocked evaluation of a record from which a base input b
\* has been removed, every key that depends on b holds NaN.
NaNPropagation ==
  (FirstCall /\ locked = {}) =>
    \A b \in BaseFields :
      ~Has(before, b) => \A k \in Keys : b \in DependsOn[k] => IsNaN(row[k])

\* C4 as stated: after a call the record holds every registry key, a locked
\* key with the value it had before, any other with a number or NaN.
Complete ==
  Called =>
    \A k \in Keys :
      /\ Has(row, k)
      /\ k \in locked => row[k] = before[k]
      /\ k \notin locked => row[k].t \in {"num", "nan"}

\* C4: when every locked key is present in the record handed in, with a
\* number or NaN, the record returned holds every registry key, a locked key
\* with the value it had before, any other with a number or NaN.
CompleteWhenLockedPresent ==
  (/\ Called
   /\ \A k \in locked : before[k].t \in {"num", "nan"}) =>
    \A k \in Keys :
      /\ Has(row, k)
      /\ k \in locked => row[k] = before[k]
      /\ k \notin locked => row[k].t \in {"num", "nan"}

\* a call with locked keys on a record without at: the record returned holds
\* numbers and NaNs
CompleteWitness ==
  /\ FirstCall
  /\ locked # {}
  /\ \A k \in locked : IsNum(before[k])
  /\ ~Has(before, "at")
  /\ IsNaN(row["manpower_with_sorter"])
  /\ IsNum(row["total"])

\* C5: a first call with locked keys, all present, gives every key the value
\* that the unlocked evaluation of the loaded record gives under the registry
\* in which each locked key's formula is the literal of its locked value; and
\* with per_day_ndx locked to 12, manual_sorting_units is 12 * 31.1 / 3600 and
\* exception_han_unit is 0.05 * 30 * 12 / 3600 whatever the base inputs are.
OverrideSemantics ==
  (/\ FirstCall
   /\ locked # {}
   /\ \A k \in locked : Has(before, k)) =>
    /\ Same(row, Evaluate(Pinned(FORMULAS, locked, before), loaded, {}).row, Keys)
    /\ (locked = MainLocked /\ ValEq(before["per_day_ndx"], IntNum(12))) =>
         /\ ValEq(row["manual_sorting_units"], Rat(12 * 311, 36000))
         /\ ValEq(row["exception_han_unit"], Rat(5 * 30 * 12, 360000))

\* main's overrides on a complete record: what reads per_day_ndx follows 12,
\* while the formula of per_day_ndx gives another number from the per-day
\* fields, which are computed as usual
OverrideSemanticsWitness ==
  /\ FirstCall
  /\ locked = MainLocked
  /\ ValEq(row["per_day_ndx"], IntNum(12))
  /\ ValEq(row["per_day_dox"], IntNum(5))
  /\ ValEq(row["out_per_day_non_docs"], IntNum(8))
  /\ ValEq(row["in_per_day_non_docs"], IntNum(6))
  /\ ValEq(row["manual_sorting_units"], Rat(12 * 311, 36000))
  /\ IsNum(row["manpower_with_sorter"])

\* C6: when the last two calls were both made without locked keys, the
\* second of them left every field as the first returned it, NaN included.
Idempotent ==
  (/\ Len(history) >= 2
   /\ history[Len(history)] = {}
   /\ history[Len(history) - 1] = {}) =>
    Same(row, before, Fields)

\* a locked call followed by two unlocked calls, on a record with numbers
\* and NaNs
IdempotentWitness ==
  /\ Len(history) = 3
  /\ history[1] # {}
  /\ history[2] = {}
  /\ history[3] = {}
  /\ IsNaN(row["manpower_with_sorter"])
  /\ IsNum(row["total"])
  /\ row = before

\* C7: every entry of the registry reads only base inputs and keys declared
\* strictly before it; and in a call on a record that holds all base inputs
\* and all locked keys, no formula finds a field missing.
OrderCorrect ==
  /\ \A i \in DOMAIN FORMULAS :
       Reads(FORMULAS[i].expr) \subseteq
         BaseFields \cup {FORMULAS[j].key : j \in 1..(i - 1)}
  /\ (/\ Called
      /\ \A b \in BaseFields : Has(before, b)
      /\ \A k \in locked : Has(before, k)) =>
       \A p \in failed : p[2] # "KeyError"

\* an unlocked call on a complete fresh record: nothing failed and the last
\* entry holds a number
OrderCorrectWitness ==
  /\ FirstCall
  /\ locked = {}
  /\ before = source
  /\ failed = {}
  /\ IsNum(row["per_day_air"])
  /\ IsNum(row["manpower_without_sorter"])

\* the keys whose formula is roundup(q, 0)
RoundupIndexes == {i \in DOMAIN FORMULAS : FORMULAS[i].expr.op = "roundup"}

\* v is the least integer greater than or equal to q
LeastIntegerAbove(v, q) ==
  /\ IsNum(v)
  /\ NumIsInt(v)
  /\ ~NumLess(v, q)
  /\ NumLess(NumSub(v, q), IntNum(1))

\* C8: roundup(24.01, 0) = 25, roundup(25.0, 0) = 25, roundup(0.0, 0) = 0; and
\* after a call every unlocked key with a formula roundup(q, 0) of a finite q
\* holds the least integer that is greater than or equal to q.
RoundsUp ==
  /\ ValEq(roundup(Rat(2401, 100), 0), IntNum(25))
  /\ ValEq(roundup(IntNum(25), 0), IntNum(25))
  /\ ValEq(roundup(IntNum(0), 0), IntNum(0))
  /\ Called =>
       \A i \in RoundupIndexes :
         LET OfQuantity(q) == IsNum(q) => LeastIntegerAbove(row[FORMULAS[i].key], q)
         IN  FORMULAS[i].key \notin locked =>
               OfQuantity(Eval(FORMULAS[i].expr.a, row))

\* out_non_docs / 25 = 24.01 was rounded up to 25, out_docs / 25 = 25 stayed,
\* and a negative quantity was rounded toward zero
RoundsUpWitness ==
  /\ FirstCall
  /\ locked = {}
  /\ ValEq(before["out_non_docs"], Rat(2401, 4))
  /\ ValEq(row["out_per_day_non_docs"], IntNum(25))
  /\ ValEq(row["out_per_day_docs"], IntNum(25))
  /\ IsNum(row["surface_unit"]) /\ row["surface_unit"].neg
  /\ IsNum(row["manpower_in_units_surface_unit"])
  /\ ~NumLess(row["manpower_in_units_surface_unit"], row["surface_unit"])

\* C9: after the unlocked evaluation of a complete record from which one base
\* input b has been removed, every key that does not depend on b holds the
\* value that the evaluation of the complete record gives it.
FailureIsolated ==
  \A b \in BaseFields :
    (FirstCall /\ locked = {} /\ before = Store(source, b, Absent)) =>
      LET Unrelated(whole) ==
            \A k \in Keys : b \notin DependsOn[k] => ValEq(row[k], whole[k])
      IN  Unrelated(Evaluate(FORMULAS, source, {}).row)

\* at was removed: the manpower fields are NaN, the unit fields are numbers
FailureIsolatedWitness ==
  /\ FirstCall
  /\ locked = {}
  /\ before = Store(source, "at", Absent)
  /\ <<"manpower_in_units_cd_unit", "KeyError">> \in failed
  /\ IsNaN(row["manpower_without_sorter"])
  /\ IsNum(row["total"])
  /\ "at" \notin DependsOn["total"]

\* the values of sorter that a record is compared under
SorterValues == {Absent, IntNum(0), IntNum(1)}

\* C10: no formula depends on sorter; a first call leaves both staffing
\* totals in the record unless they are locked and missing; and the call gives
\* every key the value it gives with any other value of sorter, or none, in
\* the record.
SorterIndependent ==
  /\ \A k \in Keys : "sorter" \notin DependsOn[k]
  /\ FirstCall =>
       /\ \A k \in {"manpower_with_sorter", "manpower_without_sorter"} \ locked :
            Has(row, k)
       /\ \A d \in SorterValues :
            Same(row, Evaluate(FORMULAS, Store(before, "sorter", d), locked).row, Keys)

\* a hub whose sorter flag is 0 has both totals, 9 with and 8 without sorter
SorterIndependentWitness ==
  /\ FirstCall
  /\ locked = {}
  /\ IsNum(before["sorter"]) /\ NumIsZero(before["sorter"])
  /\ ValEq(row["manpower_with_sorter"], IntNum(9))
  /\ ValEq(row["manpower_without_sorter"], IntNum(8))

====
